---- MODULE Spec2Model ----
(***************************************************************************)
(* Maya Asset Validator: the dialog (src/ui/validator_ui.py), the four     *)
(* check functions and the auto-fix (src/core/*.py), run against a model   *)
(* of the host session (scene graph, selection, poly selection constraint, *)
(* undo queue).  Python strings are TLA+ strings; Len, SubSeq and \o act   *)
(* on them character by character.  Lengths are in milli-units: 1000 is    *)
(* 1.0, so the tolerances 0.001 and 0.01 are 1 and 10.                     *)
(***************************************************************************)
EXTENDS Integers, Sequences, FiniteSets, TLC

(***************************************************************************)
(* Bounds of the model.                                                    *)
(***************************************************************************)
\* Auto Fix and Export Report append to the list widget without limit: at most
\* this many of them run between two rebuilds of the list
MaxAppendOps == 1
\* the undo queue's open chunks before the dialog is used: 0..MaxOpenChunks
MaxOpenChunks == 1

(***************************************************************************)
(* Python string helpers.                                                  *)
(***************************************************************************)
Upper == <<"A","B","C","D","E","F","G","H","I","J","K","L","M",
           "N","O","P","Q","R","S","T","U","V","W","X","Y","Z">>
Lower == <<"a","b","c","d","e","f","g","h","i","j","k","l","m",
           "n","o","p","q","r","s","t","u","v","w","x","y","z">>
Digit == <<"0","1","2","3","4","5","6","7","8","9">>

CharAt(s, i) == SubSeq(s, i, i)

\* c.isupper()
IsUpper(c) == \E k \in 1..26 : Upper[k] = c

\* c.lower()
LowerChar(c) == IF IsUpper(c) THEN Lower[CHOOSE k \in 1..26 : Upper[k] = c] ELSE c

\* s.lower()
RECURSIVE StrLower(_)
StrLower(s) ==
  IF Len(s) = 0 THEN ""
  ELSE LowerChar(CharAt(s, 1)) \o StrLower(SubSeq(s, 2, Len(s)))

\* s.strip(): whitespace removed at both ends
RECURSIVE LStrip(_)
LStrip(s) ==
  IF Len(s) > 0 /\ CharAt(s, 1) = " " THEN LStrip(SubSeq(s, 2, Len(s))) ELSE s

RECURSIVE RStrip(_)
RStrip(s) ==
  IF Len(s) > 0 /\ CharAt(s, Len(s)) = " " THEN RStrip(SubSeq(s, 1, Len(s) - 1)) ELSE s

Strip(s) == RStrip(LStrip(s))

\* q in s
Contains(s, q) ==
  \E i \in 1..(Len(s) - Len(q) + 1) : SubSeq(s, i, i + Len(q) - 1) = q

\* s.startswith(p)
StartsWith(s, p) == Len(s) >= Len(p) /\ SubSeq(s, 1, Len(p)) = p

\* any(c.isupper() for c in s)
AnyUpper(s) == \E i \in 1..Len(s) : IsUpper(CharAt(s, i))

\* s.split("|")[-1]
RECURSIVE LastSegment(_)
LastSegment(s) ==
  IF \E i \in 1..Len(s) : CharAt(s, i) = "|"
  THEN LET i == CHOOSE j \in 1..Len(s) : CharAt(s, j) = "|"
       IN  LastSegment(SubSeq(s, i + 1, Len(s)))
  ELSE s

\* str(n) for an integer n
RECURSIVE NatStr(_)
NatStr(n) == IF n < 10 THEN Digit[n + 1] ELSE NatStr(n \div 10) \o Digit[(n % 10) + 1]

IntStr(n) == IF n < 0 THEN "-" \o NatStr(-n) ELSE NatStr(n)

Abs(n) == IF n < 0 THEN -n ELSE n


\* the printable ASCII characters in code-point order: Ascii[k] is chr(k + 31)
\* (the entry of the grave accent, chr(96), is left empty: no name uses it)
Ascii == <<
  " ","!","\"","#","$","%","&","'","(",")","*","+",",","-",".","/",
  "0","1","2","3","4","5","6","7","8","9",":",";","<","=",">","?",
  "@","A","B","C","D","E","F","G","H","I","J","K","L","M","N","O",
  "P","Q","R","S","T","U","V","W","X","Y","Z","[","\\","]","^","_",
  "","a","b","c","d","e","f","g","h","i","j","k","l","m","n","o",
  "p","q","r","s","t","u","v","w","x","y","z","{","|","}","~" >>

\* ord(c)
Ord(c) == (CHOOSE k \in 1..Len(Ascii) : Ascii[k] = c) + 31

\* a < b for Python strings: the first differing code point decides, a proper
\* prefix is smaller
RECURSIVE StrLess(_, _)
StrLess(a, b) ==
  IF Len(b) = 0 THEN FALSE
  ELSE IF Len(a) = 0 THEN TRUE
  ELSE IF CharAt(a, 1) = CharAt(b, 1)
       THEN StrLess(SubSeq(a, 2, Len(a)), SubSeq(b, 2, Len(b)))
       ELSE Ord(CharAt(a, 1)) < Ord(CharAt(b, 1))

\* sorted(set(seq)) for a sequence of strings
RECURSIVE SortedSet(_)
SortedSet(S) ==
  IF S = {} THEN <<>>
  ELSE LET m == CHOOSE a \in S : \A b \in S \ {a} : StrLess(a, b)
       IN  <<m>> \o SortedSet(S \ {m})

Range(f) == {f[i] : i \in DOMAIN f}

\* Then(v, Body) is Body(v), with v computed before Body is entered: a
\* statement's result is a value by the time the next statement runs
Then(v, Body(_)) == CHOOSE r \in {Body(w) : w \in {v}} : TRUE

\* s.replace(old, new), old non-empty
RECURSIVE Replace(_, _, _)
Replace(s, old, new) ==
  IF Len(s) < Len(old) THEN s
  ELSE IF SubSeq(s, 1, Len(old)) = old
       THEN new \o Replace(SubSeq(s, Len(old) + 1, Len(s)), old, new)
       ELSE CharAt(s, 1) \o Replace(SubSeq(s, 2, Len(s)), old, new)

\* repr(v) of the float v = n / 1000: shortest decimal, at least one fraction digit
RECURSIVE TrimZeros(_)
TrimZeros(d) ==
  IF Len(d) > 1 /\ CharAt(d, Len(d)) = "0" THEN TrimZeros(SubSeq(d, 1, Len(d) - 1)) ELSE d

Pad3(n) == IF n < 10 THEN "00" \o NatStr(n) ELSE IF n < 100 THEN "0" \o NatStr(n) ELSE NatStr(n)

FloatRepr(n) ==
  (IF n < 0 THEN "-" ELSE "") \o NatStr(Abs(n) \div 1000) \o "." \o TrimZeros(Pad3(Abs(n) % 1000))

\* f"{v:.3f}" of the float v = n / 1000, n >= 0
Fmt3f(n) == NatStr(n \div 1000) \o "." \o Pad3(n % 1000)

\* repr of the 3-tuple of floats t
TupleRepr(t) ==
  "(" \o FloatRepr(t[1]) \o ", " \o FloatRepr(t[2]) \o ", " \o FloatRepr(t[3]) \o ")"

(***************************************************************************)
(* The host session.  A scene is a record                                  *)
(*   xforms : the transform nodes in the order cmds.ls lists them, each    *)
(*            [path, shapes, t, r, s, bb, rp, lockedChannels, lockedPivot] *)
(*            with shapes a sequence of                                    *)
(*            [path, type, intermediate, attrOk, comps, faces, sgs]        *)
(*   files  : the file texture nodes [name, hasAttr, path, used]           *)
(*   disk   : the paths os.path.exists answers True for                    *)
(*   hyperShade, mlDeleteUnused, polyMel : whether the MEL command of that *)
(*            name runs in this session (it raises otherwise)              *)
(* A command that raises has no effect.  attrOk = FALSE makes              *)
(* getAttr(shape.intermediateObject) raise; lockedChannels makes           *)
(* makeIdentity raise; lockedPivot makes xform(centerPivots) raise.        *)
(***************************************************************************)
Comp(kind, nm, lam, bd) == [kind |-> kind, nonManifold |-> nm, lamina |-> lam, border |-> bd]

Quad == <<"0", "1", "2", "3">>
Pentagon == <<"0", "1", "2", "3", "4">>
Degenerate == <<"4", "5", "5">>

NoShape == <<>>

CameraShape(path) ==
  [path |-> path, type |-> "camera", intermediate |-> FALSE, attrOk |-> TRUE,
   comps |-> <<>>, faces |-> <<>>, sgs |-> <<>>]

MeshShape(path, inter, ok, comps, faces, sgs) ==
  [path |-> path, type |-> "mesh", intermediate |-> inter, attrOk |-> ok,
   comps |-> comps, faces |-> faces, sgs |-> sgs]

Xform(path, shapes, t, r, s, bb, rp, lc, lp) ==
  [path |-> path, shapes |-> shapes, t |-> t, r |-> r, s |-> s, bb |-> bb, rp |-> rp,
   lockedChannels |-> lc, lockedPivot |-> lp]

Zero3 == <<0, 0, 0>>
One3 == <<1000, 1000, 1000>>
UnitBox == <<-500, -500, -500, 500, 500, 500>>

CleanComps == <<Comp("vtx", FALSE, FALSE, TRUE), Comp("e", FALSE, FALSE, TRUE),
                Comp("f", FALSE, FALSE, FALSE)>>
\* one non-manifold vertex off the border, one non-manifold border edge, one
\* lamina face
BadComps == <<Comp("vtx", TRUE, FALSE, FALSE), Comp("vtx", FALSE, FALSE, TRUE),
              Comp("e", TRUE, FALSE, TRUE), Comp("f", FALSE, TRUE, FALSE)>>

Persp ==
  Xform("|persp", <<CameraShape("|persp|perspShape")>>,
        <<28000, 21000, 28000>>, <<-27938, 45000, 0>>, One3, UnitBox, Zero3, FALSE, FALSE)

GeoClean ==
  Xform("|geo_a", <<MeshShape("|geo_a|geo_aShape", FALSE, TRUE, CleanComps, <<Quad>>, <<"lambert2SG">>)>>,
        Zero3, Zero3, One3, UnitBox, Zero3, FALSE, FALSE)

\* translated by exactly the tolerance on y (not reported), by 1.0 on x; pivot
\* 0.02 from the bounding-box centre
GeoMoved ==
  Xform("|geo_a", <<MeshShape("|geo_a|geo_aShape", FALSE, TRUE, CleanComps, <<Quad>>,
                              <<"initialShadingGroup">>)>>,
        <<1000, 1, 0>>, Zero3, One3, <<500, -500, -500, 1500, 500, 500>>, <<1000, 20, 0>>,
        FALSE, FALSE)

GrpC == Xform("|grp_c", NoShape, Zero3, Zero3, One3, UnitBox, Zero3, FALSE, FALSE)

GrpGeo ==
  Xform("|grp_c|geo_a", <<MeshShape("|grp_c|geo_a|geo_aShape", FALSE, TRUE, CleanComps, <<Quad>>, <<>>)>>,
        Zero3, <<0, 0, 90000>>, One3, UnitBox, Zero3, TRUE, FALSE)

Box ==
  Xform("|Box", <<MeshShape("|Box|BoxShape", FALSE, TRUE, BadComps, <<Quad, Pentagon, Degenerate>>,
                            <<"initialShadingGroup", "lambert2SG">>)>>,
        Zero3, Zero3, <<2000, 1000, 1000>>, UnitBox, <<0, -500, 0>>, FALSE, TRUE)

Null1 == Xform("|null1", NoShape, Zero3, Zero3, One3, UnitBox, Zero3, FALSE, FALSE)

\* a deformed mesh: the visible shape and its intermediate original
GeoDeformed ==
  Xform("|geo_d", <<MeshShape("|geo_d|geo_dShape", FALSE, TRUE, CleanComps, <<Quad>>, <<"lambert2SG">>),
                    MeshShape("|geo_d|geo_dShapeOrig", TRUE, TRUE, BadComps, <<Pentagon>>, <<>>)>>,
        Zero3, Zero3, One3, UnitBox, Zero3, FALSE, FALSE)

\* a mesh shape whose intermediateObject attribute cannot be read
GeoBroken ==
  Xform("|geo_b", <<MeshShape("|geo_b|geo_bShape", FALSE, FALSE, BadComps, <<Quad>>, <<"lambert2SG">>)>>,
        Zero3, Zero3, One3, UnitBox, Zero3, FALSE, FALSE)

FileNode(name, hasAttr, path, used) ==
  [name |-> name, hasAttr |-> hasAttr, path |-> path, used |-> used]

Disk == {"C:/tex/wood.png", "C:/tex/skin.1001.png"}

FilesMixed ==
  <<FileNode("file1", TRUE, "C:\\tex\\wood.png", TRUE),
    FileNode("file2", TRUE, "C:/tex/gone.png", FALSE),
    FileNode("file3", TRUE, " ", FALSE)>>

FilesUdim ==
  <<FileNode("file1", TRUE, "C:/tex/skin.<UDIM>.png", TRUE),
    FileNode("file2", TRUE, "C:/tex/hair.<UDIM>.png", TRUE),
    FileNode("file3", TRUE, "C:/tex/eye.1001.png", FALSE),
    FileNode("file4", FALSE, "", FALSE)>>

MakeScene(xforms, files, hs, ml, pm) ==
  [xforms |-> xforms, files |-> files, disk |-> Disk,
   hyperShade |-> hs, mlDeleteUnused |-> ml, polyMel |-> pm]

\* the scenes a session starts from
Scenes ==
  { MakeScene(<<Persp>>, <<>>, TRUE, TRUE, TRUE),
    MakeScene(<<Persp, GeoClean>>, <<>>, TRUE, TRUE, TRUE),
    MakeScene(<<Persp, Box, GeoMoved, GrpC, GrpGeo>>, FilesMixed, TRUE, TRUE, TRUE),
    MakeScene(<<Box, GeoMoved, Null1>>, FilesMixed, FALSE, FALSE, FALSE),
    MakeScene(<<GeoDeformed, Null1>>, FilesUdim, FALSE, TRUE, TRUE),
    MakeScene(<<Box, GeoBroken, GeoClean>>, <<>>, TRUE, TRUE, TRUE) }

(***************************************************************************)
(* Result records.                                                         *)
(***************************************************************************)
\* a faulty record: a level outside the three the dialog counts
_error_mixed_case(node, message) == [level |-> "Error", node |-> node, message |-> message]

_error(node, message) == [level |-> "ERROR", node |-> node, message |-> message]

_warning(node, message) == [level |-> "WARNING", node |-> node, message |-> message]

_info(node, message) == [level |-> "INFO", node |-> node, message |-> message]

(***************************************************************************)
(* Scene queries of maya.cmds.                                             *)
(***************************************************************************)
\* cmds.ls(type="transform", long=True)
LsTransforms(scene) == [i \in 1..Len(scene.xforms) |-> scene.xforms[i].path]

RECURSIVE Flatten(_)
Flatten(ss) == IF Len(ss) = 0 THEN <<>> ELSE ss[1] \o Flatten(SubSeq(ss, 2, Len(ss)))

\* cmds.ls(type="mesh", long=True): the mesh shape records, in DAG order
MeshShapes(scene) ==
  SelectSeq(Flatten([i \in 1..Len(scene.xforms) |-> scene.xforms[i].shapes]),
            LAMBDA sh : sh.type = "mesh")

\* cmds.objExists(node) for a DAG or dependency node
ObjExists(scene, node) ==
  \/ \E i \in 1..Len(scene.xforms) :
       \/ scene.xforms[i].path = node
       \/ \E j \in 1..Len(scene.xforms[i].shapes) : scene.xforms[i].shapes[j].path = node
  \/ \E i \in 1..Len(scene.files) : scene.files[i].name = node

XformOf(scene, path) ==
  scene.xforms[CHOOSE i \in 1..Len(scene.xforms) : scene.xforms[i].path = path]

\* cmds.listRelatives(shape, parent=True, fullPath=True): every shape of the
\* model has a parent transform
ParentOf(scene, shapePath) ==
  LET i == CHOOSE k \in 1..Len(scene.xforms) :
             \E j \in 1..Len(scene.xforms[k].shapes) : scene.xforms[k].shapes[j].path = shapePath
  IN  <<scene.xforms[i].path>>

\* p[0] if p else shape
FirstOr(p, shape) == IF Len(p) > 0 THEN p[1] ELSE shape

_parent_transform(scene, shapePath) == FirstOr(ParentOf(scene, shapePath), shapePath)

(***************************************************************************)
(* core/naming_checks.py                                                   *)
(***************************************************************************)
\* the results of one shape of the "for shape in shapes" loop
NamingShapeRule(node, short_name, shape_type) ==
  IF shape_type = "mesh"
  THEN IF ~StartsWith(short_name, "geo_")
       THEN <<_warning(node, "Mesh transform should start with 'geo_'")>> ELSE <<>>
  ELSE IF shape_type = "joint"
  THEN IF ~StartsWith(short_name, "jnt_")
       THEN <<_warning(node, "Joint should start with 'jnt_'")>> ELSE <<>>
  ELSE <<>>

\* the results of one pass of the "for node in all_transforms" loop
NamingRules(node, short_name, shapes, seen_names) ==
  (IF short_name \in seen_names THEN <<_error(node, "Duplicate object name")>> ELSE <<>>)
  \o (IF AnyUpper(short_name)
      THEN <<_error(node, "Object name contains uppercase letters (use lowercase)")>>
      ELSE <<>>)
  \o Flatten([j \in 1..Len(shapes) |-> NamingShapeRule(node, short_name, shapes[j].type)])
  \o (IF Len(shapes) = 0 /\ ~StartsWith(short_name, "grp_")
      THEN <<_info(node, "Empty transform should start with 'grp_'")>> ELSE <<>>)

NamingNode(x, seen_names) == NamingRules(x.path, LastSegment(x.path), x.shapes, seen_names)

RECURSIVE NamingLoop(_, _, _)
NamingLoop(xs, i, seen_names) ==
  IF i > Len(xs) THEN <<>>
  ELSE NamingNode(xs[i], seen_names)
         \o NamingLoop(xs, i + 1, seen_names \cup {LastSegment(xs[i].path)})

run_naming_checks(scene) == NamingLoop(scene.xforms, 1, {})

(***************************************************************************)
(* core/transform_checks.py                                                *)
(***************************************************************************)
\* 0.001, 0.01, 0.001 and 0.01 in milli-units
translate_tolerance == 1
rotate_tolerance == 10
scale_tolerance == 1
pivot_tolerance == 10

ParentsOf(scene, shapes) == {ParentOf(scene, shapes[i].path)[1] : i \in 1..Len(shapes)}

\* the transforms that directly parent a mesh shape, sorted
TC_list_mesh_transforms_long(scene) == SortedSet(ParentsOf(scene, MeshShapes(scene)))

_abs_any_gt(vals, tol) == \E i \in 1..Len(vals) : Abs(vals[i]) > tol

\* (min + max) * 0.5 on each axis
_bbox_center_world(x) ==
  <<(x.bb[1] + x.bb[4]) \div 2, (x.bb[2] + x.bb[5]) \div 2, (x.bb[3] + x.bb[6]) \div 2>>

_rotate_pivot_world(x) == <<x.rp[1], x.rp[2], x.rp[3]>>

\* the squared distance; _distance is its square root
DistanceSq(a, b) ==
  (a[1] - b[1]) * (a[1] - b[1]) + (a[2] - b[2]) * (a[2] - b[2]) + (a[3] - b[3]) * (a[3] - b[3])

\* the square root rounded to the nearest milli-unit, as "{dist:.3f}" prints it
RoundedSqrt(n) ==
  CHOOSE k \in 0..n : (2 * k - 1) * (2 * k - 1) <= 4 * n /\ 4 * n < (2 * k + 1) * (2 * k + 1)

\* the pivot rule, given the squared distance of the pivot from the centre
PivotRule(node, pivot, d2) ==
  IF d2 > pivot_tolerance * pivot_tolerance
  THEN <<_info(node, "Pivot far from bbox center (dist " \o Fmt3f(RoundedSqrt(d2))
                       \o "). Pivot: " \o TupleRepr(pivot))>>
  ELSE <<>>

\* the results of one pass of the "for node in mesh_transforms" loop
TransformNode(x) ==
  (IF _abs_any_gt(x.t, translate_tolerance)
   THEN <<_warning(x.path, "Translate not zero: " \o TupleRepr(x.t))>> ELSE <<>>)
  \o (IF _abs_any_gt(x.r, rotate_tolerance)
      THEN <<_warning(x.path, "Rotate not zero: " \o TupleRepr(x.r))>> ELSE <<>>)
  \o (IF _abs_any_gt(<<x.s[1] - 1000, x.s[2] - 1000, x.s[3] - 1000>>, scale_tolerance)
      THEN <<_warning(x.path, "Scale not one: " \o TupleRepr(x.s))>> ELSE <<>>)
  \o PivotRule(x.path, _rotate_pivot_world(x),
               DistanceSq(_bbox_center_world(x), _rotate_pivot_world(x)))

TransformLoop(scene, mesh_transforms) ==
  Flatten([i \in 1..Len(mesh_transforms) |-> TransformNode(XformOf(scene, mesh_transforms[i]))])

run_transform_checks(scene) == TransformLoop(scene, TC_list_mesh_transforms_long(scene))

(***************************************************************************)
(* core/texture_checks.py.  The result is [results, raised]: raised when   *)
(* getAttr raises, and then there is no return value.                      *)
(***************************************************************************)
\* _UDIM_PATTERN.search(norm)
UdimPatternFound(norm) == Contains(norm, "<UDIM>") \/ Contains(norm, "1001")

\* the rules for a file node whose path is not blank; norm is the path with
\* forward slashes
TexturePathRules(disk, name, path, norm) ==
  IF Contains(norm, "<UDIM>")
  THEN IF Replace(norm, "<UDIM>", "1001") \notin disk
       THEN <<_warning(name, "UDIM texture missing (checked 1001): " \o path)>>
       ELSE <<>>
  ELSE IF UdimPatternFound(norm)
  THEN IF norm \in disk THEN <<>>
       ELSE IF Contains(norm, "1001") /\ norm \notin disk
       THEN <<_warning(name, "Possible UDIM texture missing (1001 not found): " \o path)>>
       ELSE <<>>
  ELSE IF norm \notin disk
  THEN <<_error(name, "Missing texture file: " \o path)>>
  ELSE <<>>

TextureFile(scene, f) ==
  IF ~f.hasAttr THEN <<>>
  ELSE IF Strip(f.path) = "" THEN <<_error(f.name, "Texture path is empty")>>
  ELSE TexturePathRules(scene.disk, f.name, f.path, Replace(f.path, "\\", "/"))

TextureMeshRules(transform, sgs) ==
  IF Len(sgs) = 0
  THEN <<_warning(transform, "Mesh has no shadingEngine connections (no material assignment)")>>
  ELSE IF \A i \in 1..Len(sgs) : sgs[i] = "initialShadingGroup"
  THEN <<_info(transform, "Mesh appears to be using default material (initialShadingGroup)")>>
  ELSE <<>>

TextureMesh(scene, shape) ==
  IF shape.intermediate THEN <<>>
  ELSE TextureMeshRules(_parent_transform(scene, shape.path), shape.sgs)

TextureLoops(scene, files, mesh_shapes) ==
  IF \E i \in 1..Len(mesh_shapes) : ~mesh_shapes[i].attrOk
  THEN [results |-> <<>>, raised |-> TRUE]
  ELSE [results |-> Flatten([i \in 1..Len(files) |-> TextureFile(scene, files[i])])
                      \o Flatten([i \in 1..Len(mesh_shapes) |-> TextureMesh(scene, mesh_shapes[i])]),
        raised |-> FALSE]

run_texture_checks(scene) == TextureLoops(scene, scene.files, MeshShapes(scene))

(***************************************************************************)
(* Selection and the poly selection constraint.  A host state h is         *)
(* [sel, con]: sel the selection list (cmds.ls(sl=True, fl=True)), con the *)
(* constraint [mode, type, toggles].  With mode 3 and a toggle on,         *)
(* selecting a transform selects those components of its visible meshes    *)
(* that are of the constraint's type and have every toggled property.      *)
(***************************************************************************)
ConstraintOn(con) == con.mode # 0 /\ con.toggles # {}

KindOfType(type) ==
  IF type = "0x0001" THEN "vtx" ELSE IF type = "0x8000" THEN "e" ELSE "f"

CompHas(c, toggle) ==
  IF toggle = "nonManifold" THEN c.nonManifold
  ELSE IF toggle = "lamina" THEN c.lamina
  ELSE c.border

\* the meshes of a transform that the viewport shows
VisibleMeshes(x) == SelectSeq(x.shapes, LAMBDA sh : sh.type = "mesh" /\ ~sh.intermediate)

CompsOf(shapes) == Flatten([j \in 1..Len(shapes) |-> shapes[j].comps])

\* the components with their names, as Maya lists them
NamedComps(path, comps) ==
  [k \in 1..Len(comps) |->
     [name |-> path \o "." \o comps[k].kind \o "[" \o NatStr(k - 1) \o "]", comp |-> comps[k]]]

NamesOf(hit) == [k \in 1..Len(hit) |-> hit[k].name]

\* the components of the transform that the constraint lets through
ComponentNames(x, con) ==
  NamesOf(SelectSeq(NamedComps(x.path, CompsOf(VisibleMeshes(x))),
                    LAMBDA e : /\ e.comp.kind = KindOfType(con.type)
                               /\ \A g \in con.toggles : CompHas(e.comp, g)))

\* cmds.select(node, r=True)
SelectReplace(scene, h, node) ==
  [h EXCEPT !.sel = IF ConstraintOn(h.con) /\ node \in Range(LsTransforms(scene))
                    THEN ComponentNames(XformOf(scene, node), h.con)
                    ELSE <<node>>]

\* cmds.select(clear=True)
SelectClear(h) == [h EXCEPT !.sel = <<>>]

\* cmds.polySelectConstraint(disable=True): every constraint toggled off
PolySelectConstraintDisable(h) == [h EXCEPT !.con.mode = 0, !.con.toggles = {}]

\* mel.eval("polySelectConstraint -mode 3 -type T -<toggle> 1;")
MelPolySelectConstraint(h, mel_cmd) ==
  [h EXCEPT !.con = [mode |-> 3, type |-> mel_cmd.type,
                     toggles |-> h.con.toggles \cup {mel_cmd.toggle}]]

NonManifoldVertsCmd == [type |-> "0x0001", toggle |-> "nonManifold"]
NonManifoldEdgesCmd == [type |-> "0x8000", toggle |-> "nonManifold"]
LaminaFacesCmd == [type |-> "0x0008", toggle |-> "lamina"]

(***************************************************************************)
(* core/geometry_checks.py                                                 *)
(***************************************************************************)
max_ngon_verts == 4

_reset_constraints(h) == PolySelectConstraintDisable(h)

\* a faulty count: the constraint left as the query set it
Counted_without_reset(h4) == [h |-> h4, n |-> Len(h4.sel)]

\* the try body once mel.eval has set the constraint (host state h3), and the
\* finally clause
Counted(h4) == [h |-> _reset_constraints(h4), n |-> Len(h4.sel)]

CountSelected(scene, h3, transform) ==
  Then(SelectReplace(scene, h3, transform), LAMBDA h4 : Counted(h4))

\* a faulty query: the constraint not reset before the MEL command
_count_poly_select_without_reset_first(scene, h, transform, mel_cmd) ==
  Then(SelectReplace(scene, h, transform),
       LAMBDA h2 : IF scene.polyMel
                   THEN CountSelected(scene, MelPolySelectConstraint(h2, mel_cmd), transform)
                   ELSE [h |-> _reset_constraints(h2), n |-> 0])

\* [h, n]: the host state afterwards and the number returned
_count_poly_select(scene, h, transform, mel_cmd) ==
  Then(_reset_constraints(SelectReplace(scene, h, transform)),
       LAMBDA h2 : IF scene.polyMel
                   THEN CountSelected(scene, MelPolySelectConstraint(h2, mel_cmd), transform)
                   ELSE [h |-> _reset_constraints(h2), n |-> 0])

FacesOfShapes(shapes) == Flatten([j \in 1..Len(shapes) |-> shapes[j].faces])

\* the faces cmds.polyEvaluate and cmds.polyInfo see on the transform
FacesOf(x) == FacesOfShapes(VisibleMeshes(x))

\* cmds.polyInfo(face, faceToVertex=True)[0].split() for face i (from 0)
PolyInfoParts(faces, i) == <<"FACE", NatStr(i) \o ":">> \o faces[i + 1]

\* parts.index(":")
IndexOfColon(parts) ==
  CHOOSE k \in 1..Len(parts) : parts[k] = ":" /\ \A m \in 1..(k - 1) : parts[m] # ":"

\* the vertex tokens of a face line
VertexTokens(parts) ==
  IF \E k \in 1..Len(parts) : parts[k] = ":"
  THEN SubSeq(parts, IndexOfColon(parts) + 1, Len(parts))
  ELSE SubSeq(parts, 3, Len(parts))

NgonsIn(faces, max_verts) ==
  Cardinality({i \in 0..(Len(faces) - 1) : Len(VertexTokens(PolyInfoParts(faces, i))) > max_verts})

_count_ngons(x, max_verts) == NgonsIn(FacesOf(x), max_verts)

HasRepeat(vids) == Len(vids) # Cardinality(Range(vids))

ZeroAreaIn(faces) ==
  Cardinality({i \in 0..(Len(faces) - 1) : HasRepeat(VertexTokens(PolyInfoParts(faces, i)))})

_count_zero_area_faces(x) == ZeroAreaIn(FacesOf(x))

AppendCount(n, c) == [h |-> c.h, n |-> Append(n, c.n)]

\* the constraint queries of one shape in order: [h, n], n the counts so far
RECURSIVE CountAll(_, _, _, _, _)
CountAll(scene, hn, transform, mel_cmds, i) ==
  IF i > Len(mel_cmds) THEN hn
  ELSE Then(AppendCount(hn.n, _count_poly_select(scene, hn.h, transform, mel_cmds[i])),
            LAMBDA next : CountAll(scene, next, transform, mel_cmds, i + 1))

\* the results of one shape from its counts
GeometryResults(transform, nm_verts, nm_edges, lamina_faces, ngon_faces, zero_faces) ==
  (IF nm_verts > 0 \/ nm_edges > 0
   THEN <<_error(transform, "Non-manifold geometry detected (verts: " \o NatStr(nm_verts)
                              \o ", edges: " \o NatStr(nm_edges) \o ")")>>
   ELSE <<>>)
  \o (IF lamina_faces > 0
      THEN <<_error(transform, "Lamina faces detected: " \o NatStr(lamina_faces))>> ELSE <<>>)
  \o (IF ngon_faces > 0
      THEN <<_warning(transform, "N-gons detected (> " \o NatStr(max_ngon_verts)
                                   \o " verts): " \o NatStr(ngon_faces))>>
      ELSE <<>>)
  \o (IF zero_faces > 0
      THEN <<_warning(transform, "Possible zero-area faces: " \o NatStr(zero_faces))>>
      ELSE <<>>)

\* the loop body for a shape that is not intermediate, given the outcome
\* counted of its three constraint queries
GeometryShapeFrom(scene, transform, counted) ==
  [h |-> counted.h,
   results |-> GeometryResults(transform, counted.n[1], counted.n[2], counted.n[3],
                               _count_ngons(XformOf(scene, transform), max_ngon_verts),
                               _count_zero_area_faces(XformOf(scene, transform)))]

GeometryShape(scene, h, transform) ==
  GeometryShapeFrom(scene, transform,
    CountAll(scene, [h |-> h, n |-> <<>>], transform,
             <<NonManifoldVertsCmd, NonManifoldEdgesCmd, LaminaFacesCmd>>, 1))

\* the return after the loop: constraints reset, selection cleared
GeometryFinish(loop) ==
  IF loop.raised THEN loop
  ELSE [h |-> SelectClear(_reset_constraints(loop.h)), results |-> loop.results,
        raised |-> FALSE]

\* the loop from shape i on: [h, results, raised]
RECURSIVE GeometryLoop(_, _, _, _, _)

\* on to shape i + 1 with the outcome g of shape i
GeometryNext(scene, mesh_shapes, i, results, g) ==
  Then(results \o g.results, LAMBDA extended : GeometryLoop(scene, g.h, mesh_shapes, i + 1, extended))

GeometryLoop(scene, h, mesh_shapes, i, results) ==
  IF i > Len(mesh_shapes) THEN [h |-> h, results |-> results, raised |-> FALSE]
  ELSE IF ~mesh_shapes[i].attrOk THEN [h |-> h, results |-> results, raised |-> TRUE]
  ELSE IF mesh_shapes[i].intermediate
  THEN GeometryLoop(scene, h, mesh_shapes, i + 1, results)
  ELSE Then(GeometryShape(scene, h, _parent_transform(scene, mesh_shapes[i].path)),
            LAMBDA g : GeometryNext(scene, mesh_shapes, i, results, g))

\* [h, results, raised]; results is the return value when raised is FALSE
run_geometry_checks(scene, h) ==
  IF Len(MeshShapes(scene)) = 0 THEN [h |-> h, results |-> <<>>, raised |-> FALSE]
  ELSE GeometryFinish(GeometryLoop(scene, h, MeshShapes(scene), 1, <<>>))

(***************************************************************************)
(* core/auto_fix.py.  A run threads st = [scene, undo, opens, closes,      *)
(* unchunked, badClose, actions]: undo is the number of open undo chunks,  *)
(* opens and closes count this call's undoInfo(openChunk) and              *)
(* undoInfo(closeChunk), unchunked records a scene modification made while *)
(* this call had no chunk open, badClose a closeChunk with no chunk of     *)
(* this call open.  Nothing inside the try block raises past its own       *)
(* except clause, so the finally clause runs at the end of the block.      *)
(***************************************************************************)
UndoOpenChunk(st) == [st EXCEPT !.undo = @ + 1, !.opens = @ + 1]

\* a faulty ending: the chunk never closed
UndoCloseChunk_missing(st) == st

UndoCloseChunk(st) ==
  [st EXCEPT !.undo = @ - 1, !.closes = @ + 1, !.badClose = @ \/ (st.opens = st.closes)]

Modify(st, scene) ==
  [st EXCEPT !.scene = scene, !.unchunked = @ \/ (st.opens = st.closes)]

Act(st, action) == [st EXCEPT !.actions = Append(@, action)]

\* the sorted transforms that parent a mesh shape not known to be intermediate
AF_list_mesh_transforms_long(scene) ==
  SortedSet(ParentsOf(scene, SelectSeq(MeshShapes(scene),
                                       LAMBDA sh : ~(sh.attrOk /\ sh.intermediate))))

XformIndex(scene, path) == CHOOSE i \in 1..Len(scene.xforms) : scene.xforms[i].path = path

\* cmds.makeIdentity(node, apply=True, t=True, r=True, s=True)
MakeIdentity(scene, node) ==
  [scene EXCEPT !.xforms[XformIndex(scene, node)] =
     [@ EXCEPT !.t = Zero3, !.r = Zero3, !.s = One3]]

\* cmds.xform(node, centerPivots=True)
CenterPivots(scene, node) ==
  [scene EXCEPT !.xforms[XformIndex(scene, node)].rp = _bbox_center_world(XformOf(scene, node))]

\* the MEL command deleteUnusedNodes / MLdeleteUnused
DeleteUnusedNodes(scene) ==
  [scene EXCEPT !.files = SelectSeq(@, LAMBDA f : f.used)]

\* the freeze loop from node i on; count is the number of successes so far
RECURSIVE FreezeLoop(_, _, _, _)
FreezeLoop(st, nodes, i, count) ==
  IF i > Len(nodes)
  THEN Act(st, _info("Scene", "Freeze transforms attempted on " \o NatStr(count) \o " mesh transforms"))
  ELSE IF ~ObjExists(st.scene, nodes[i]) THEN FreezeLoop(st, nodes, i + 1, count)
  ELSE IF XformOf(st.scene, nodes[i]).lockedChannels
  THEN FreezeLoop(Act(st, _warning(nodes[i], "Failed to freeze transforms")), nodes, i + 1, count)
  ELSE FreezeLoop(Modify(st, MakeIdentity(st.scene, nodes[i])), nodes, i + 1, count + 1)

RECURSIVE CenterLoop(_, _, _, _)
CenterLoop(st, nodes, i, count) ==
  IF i > Len(nodes)
  THEN Act(st, _info("Scene", "Center pivots attempted on " \o NatStr(count) \o " mesh transforms"))
  ELSE IF ~ObjExists(st.scene, nodes[i]) THEN CenterLoop(st, nodes, i + 1, count)
  ELSE IF XformOf(st.scene, nodes[i]).lockedPivot
  THEN CenterLoop(Act(st, _warning(nodes[i], "Failed to center pivot")), nodes, i + 1, count)
  ELSE CenterLoop(Modify(st, CenterPivots(st.scene, nodes[i])), nodes, i + 1, count + 1)

DeleteUnusedStep(st) ==
  IF st.scene.hyperShade
  THEN Act(Modify(st, DeleteUnusedNodes(st.scene)), _info("Scene", "Delete unused nodes executed"))
  ELSE IF st.scene.mlDeleteUnused
  THEN Act(Modify(st, DeleteUnusedNodes(st.scene)),
           _info("Scene", "Delete unused nodes executed (fallback)"))
  ELSE Act(st, _warning("Scene", "Failed to delete unused nodes (HyperShade may not be available)"))

FreezeStep(st, nodes, freeze_transforms) ==
  IF freeze_transforms THEN FreezeLoop(st, nodes, 1, 0) ELSE st

CenterStep(st, nodes, center_pivots) ==
  IF center_pivots THEN CenterLoop(st, nodes, 1, 0) ELSE st

DeleteStep(st, delete_unused) == IF delete_unused THEN DeleteUnusedStep(st) ELSE st

\* the try block and the finally clause, from the state st after openChunk
AutoFixBody(st, mesh_transforms, freeze_transforms, center_pivots, delete_unused) ==
  UndoCloseChunk(
    DeleteStep(
      CenterStep(FreezeStep(st, mesh_transforms, freeze_transforms),
                 mesh_transforms, center_pivots),
      delete_unused))

\* the final st; st.actions is the return value
run_auto_fix(scene, undo, freeze_transforms, center_pivots, delete_unused) ==
  AutoFixBody(UndoOpenChunk([scene |-> scene, undo |-> undo, opens |-> 0, closes |-> 0,
                             unchunked |-> FALSE, badClose |-> FALSE, actions |-> <<>>]),
              AF_list_mesh_transforms_long(scene),
              freeze_transforms, center_pivots, delete_unused)

(***************************************************************************)
(* core/reporting.py                                                       *)
(***************************************************************************)
Levels == {"ERROR", "WARNING", "INFO"}

CountLevel(results, lvl) == Cardinality({i \in 1..Len(results) : results[i].level = lvl})

\* the report without its meta block (scene name, user, machine, time)
build_report(results) ==
  [summary |-> [total |-> Len(results),
                counts |-> [lvl \in Levels \cup {results[i].level : i \in 1..Len(results)}
                              |-> CountLevel(results, lvl)]],
   results |-> results]

(***************************************************************************)
(* ui/validator_ui.py: the dialog.  A list item is [text, color, data];    *)
(* data is the node stored under UserRole, "" when none was stored.  The   *)
(* em dash of the item texts is written "--".                              *)
(***************************************************************************)
VARIABLES
  scene,             \* the host's scene graph
  host,              \* [sel, con]: the host's selection and selection constraint
  undoOpen,          \* the host's number of open undo chunks
  last_results,      \* self.last_results
  filtered_results,  \* self.filtered_results
  results_list,      \* the items of self.results_list
  summary_label,     \* the text of self.summary_label
  status_label,      \* the text of self.status_label
  severity,          \* self.severity_filter.currentText()
  search_text,       \* self.search_box.text()
  appendOps,         \* history: handlers that appended to the list since its last rebuild
  lastOp,            \* history: the handler that ran last and what it did
  lastValidation     \* history: the scene and results of the last completed run

vars == <<scene, host, undoOpen, last_results, filtered_results, results_list,
          summary_label, status_label, severity, search_text, appendOps, lastOp,
          lastValidation>>

ColorOf(level) ==
  IF level = "ERROR" THEN "red" ELSE IF level = "WARNING" THEN "orange" ELSE "white"

\* the item add_result(level, message) appends
AddResultItem(level, message) ==
  [text |-> "[" \o level \o "] " \o message, color |-> ColorOf(level), data |-> ""]

\* the item apply_filters builds for the result r
ResultItem(r) ==
  [text |-> "[" \o r.level \o "] " \o r.node \o " -- " \o r.message,
   color |-> ColorOf(r.level), data |-> r.node]

SummaryText(e, w, i, total) ==
  "ERROR: " \o NatStr(e) \o " | WARNING: " \o NatStr(w) \o " | INFO: " \o NatStr(i)
    \o " | Total: " \o NatStr(total)

\* query in hay.lower(): some window of hay, lowered character by character,
\* is the query
ContainsLowered(hay, query) ==
  \E i \in 1..(Len(hay) - Len(query) + 1) :
    \A k \in 1..Len(query) : LowerChar(CharAt(hay, i + k - 1)) = CharAt(query, k)

\* a faulty filter: the query looked for in the text as written
PassesFilter_case_sensitive(r, sev, query) ==
  /\ sev = "All" \/ r.level = sev
  /\ query = "" \/ Contains(r.level \o " " \o r.node \o " " \o r.message, query)

\* whether apply_filters keeps the result r
PassesFilter(r, sev, query) ==
  /\ sev = "All" \/ r.level = sev
  /\ query = "" \/ ContainsLowered(r.level \o " " \o r.node \o " " \o r.message, query)

\* apply_filters: [summary, filtered, list], the new label text,
\* filtered_results and list items
FilterSeq(results, sev, query) == SelectSeq(results, LAMBDA r : PassesFilter(r, sev, query))

\* the label and the rebuilt list, given the results that passed
FilterView(results, filtered) ==
  [summary |-> SummaryText(CountLevel(results, "ERROR"), CountLevel(results, "WARNING"),
                           CountLevel(results, "INFO"), Len(results)),
   filtered |-> filtered,
   list |-> IF Len(filtered) = 0
            THEN <<AddResultItem("INFO", "No results match current filters")>>
            ELSE [k \in 1..Len(filtered) |-> ResultItem(filtered[k])]]

apply_filters(results, sev, text) ==
  FilterView(results, FilterSeq(results, sev, StrLower(Strip(text))))

Severities == {"All", "ERROR", "WARNING", "INFO"}

\* the texts typed into the search box
SearchTexts == {"", " Box ", "zzz"}

\* s.endswith(p)
EndsWith(s, p) == Len(s) >= Len(p) /\ SubSeq(s, Len(s) - Len(p) + 1, Len(s)) = p

\* the handler's end when no check raised
ValidationDone(h, results, shown) ==
  [completed |-> TRUE, host |-> h, last_results |-> results,
   filtered |-> shown.filtered, list |-> shown.list, summary |-> shown.summary,
   status |-> "Validation complete"]

\* the handler's end when a check raised: the list was cleared, the status
\* set, and nothing else of the dialog was reached
ValidationRaised(h, old) ==
  [completed |-> FALSE, host |-> h, last_results |-> old.last_results,
   filtered |-> old.filtered, list |-> <<>>, summary |-> old.summary,
   status |-> "Running validation..."]

\* a faulty aggregation: the geometry results ahead of the transform results
Aggregate_geometry_first(naming, transform, geometry, texture) ==
  naming \o geometry \o transform \o texture

\* results.extend(...) four times, then last_results and apply_filters
Aggregate(naming, transform, geometry, texture) ==
  naming \o transform \o geometry \o texture

ValidationEnd(old, sev, text, naming, transform, geometry, texture) ==
  IF geometry.raised \/ texture.raised
  THEN ValidationRaised(geometry.h, old)
  ELSE ValidationDone(geometry.h,
         Aggregate(naming, transform, geometry.results, texture.results),
         apply_filters(Aggregate(naming, transform, geometry.results, texture.results),
                       sev, text))

\* run_validation: [completed, host, last_results, filtered, list, summary,
\* status], the dialog's fields and the host state when the handler ends;
\* completed is FALSE when a check raised and the handler stopped there
run_validation(sc, h, old, sev, text) ==
  ValidationEnd(old, sev, text, run_naming_checks(sc), run_transform_checks(sc),
                run_geometry_checks(sc, h), run_texture_checks(sc))

\* the clear_results in force: the class body defines the method twice and
\* the second definition replaces the first
clear_results(old) ==
  [last_results |-> old.last_results, filtered |-> old.filtered, list |-> <<>>,
   summary |-> old.summary, status |-> "Results cleared"]

\* the path export_report writes and its format, from the dialog's answer
ExportTarget(filepath, selected_filter) ==
  IF EndsWith(StrLower(filepath), ".txt") \/ Contains(selected_filter, "Text Report")
  THEN [format |-> "txt",
        path |-> IF ~EndsWith(StrLower(filepath), ".txt") THEN filepath \o ".txt" ELSE filepath]
  ELSE [format |-> "json",
        path |-> IF ~EndsWith(StrLower(filepath), ".json") THEN filepath \o ".json" ELSE filepath]

\* export_report when there is nothing to export: the information box only
ExportRefused(old) ==
  [outcome |-> "refused", dialog |-> FALSE, wrote |-> FALSE,
   target |-> [format |-> "", path |-> ""], report |-> build_report(<<>>),
   list |-> old.list, status |-> old.status]

\* export_report from build_report on: the save dialog, then the file
ExportProceeds(old, results, filepath, selected_filter, io_ok) ==
  IF filepath = ""
  THEN [outcome |-> "cancelled", dialog |-> TRUE, wrote |-> FALSE,
        target |-> [format |-> "", path |-> ""], report |-> build_report(results),
        list |-> old.list, status |-> "Export cancelled"]
  ELSE IF ~io_ok
  THEN [outcome |-> "failed", dialog |-> TRUE, wrote |-> FALSE,
        target |-> ExportTarget(filepath, selected_filter), report |-> build_report(results),
        list |-> old.list, status |-> "Export failed"]
  ELSE [outcome |-> "saved", dialog |-> TRUE, wrote |-> TRUE,
        target |-> ExportTarget(filepath, selected_filter), report |-> build_report(results),
        list |-> Append(old.list,
                        AddResultItem("INFO", "Report exported to: "
                                                \o ExportTarget(filepath, selected_filter).path)),
        status |-> "Report saved: " \o ExportTarget(filepath, selected_filter).path]

\* a faulty export: what the list shows rather than what the run found
export_report_of_filtered(old, filepath, selected_filter, io_ok) ==
  IF Len(old.filtered) = 0 THEN ExportRefused(old)
  ELSE ExportProceeds(old, old.filtered, filepath, selected_filter, io_ok)

\* export_report: [outcome, dialog, wrote, target, report, list, status].
\* filepath and selected_filter are the save dialog's answer, io_ok whether
\* the file could be written
export_report(old, filepath, selected_filter, io_ok) ==
  IF Len(old.last_results) = 0 THEN ExportRefused(old)
  ELSE ExportProceeds(old, old.last_results, filepath, selected_filter, io_ok)

\* the items the dialog's run_auto_fix adds for the actions returned
ActionItems(actions) ==
  [k \in 1..Len(actions) |->
     AddResultItem(actions[k].level, actions[k].node \o " -- " \o actions[k].message)]

AutoFixShown(old, st) ==
  [called |-> TRUE, st |-> st, list |-> old.list \o ActionItems(st.actions),
   status |-> "Auto Fix complete"]

AutoFixDeclined(old, sc, undo) ==
  [called |-> FALSE,
   st |-> [scene |-> sc, undo |-> undo, opens |-> 0, closes |-> 0,
           unchunked |-> FALSE, badClose |-> FALSE, actions |-> <<>>],
   list |-> old.list, status |-> "Auto Fix cancelled"]

\* a faulty confirmation: only the No button cancels
AssetValidatorUI_run_auto_fix_unless_no(old, sc, undo, reply) ==
  IF reply = "No" THEN AutoFixDeclined(old, sc, undo)
  ELSE AutoFixShown(old, run_auto_fix(sc, undo, TRUE, TRUE, TRUE))

\* the dialog's run_auto_fix: [called, st, list, status]; reply is the
\* button the confirmation box returns
AssetValidatorUI_run_auto_fix(old, sc, undo, reply) ==
  IF reply # "Yes" THEN AutoFixDeclined(old, sc, undo)
  ELSE AutoFixShown(old, run_auto_fix(sc, undo, TRUE, TRUE, TRUE))

\* on_result_double_clicked: [host, status]
on_result_double_clicked(sc, h, old, item) ==
  IF item.data = "" THEN [host |-> h, status |-> old.status]
  ELSE IF ObjExists(sc, item.data)
  THEN [host |-> SelectReplace(sc, h, item.data), status |-> "Selected: " \o item.data]
  ELSE [host |-> h, status |-> "Object no longer exists in scene"]

\* the dialog's fields as a record
Dialog == [last_results |-> last_results, filtered |-> filtered_results,
           list |-> results_list, summary |-> summary_label, status |-> status_label]

ConOff == [mode |-> 0, type |-> "0x0001", toggles |-> {}]

\* the constraint a user sets in the viewport: border edges only
UserConstraint == [mode |-> 3, type |-> "0x8000", toggles |-> {"border"}]

NoValidation == [done |-> FALSE, scene |-> <<>>, results |-> <<>>]

\* the history record of a handler that has nothing to record
NoOp == [op |-> "none", outcome |-> "", hostBefore |-> [sel |-> <<>>, con |-> ConOff],
         prev |-> NoValidation, resultsBefore |-> <<>>,
         called |-> FALSE, undoBefore |-> 0, opens |-> 0, closes |-> 0,
         unchunked |-> FALSE, badClose |-> FALSE, actions |-> <<>>,
         dialog |-> FALSE, wrote |-> FALSE, report |-> build_report(<<>>)]

Op(name, outcome) == [NoOp EXCEPT !.op = name, !.outcome = outcome]

\* the dialog after __init__, over a scene with nothing selected
InitDialog ==
  /\ scene \in Scenes
  /\ host = [sel |-> <<>>, con |-> ConOff]
  /\ last_results = <<>>
  /\ filtered_results = <<>>
  /\ results_list = <<>>
  /\ summary_label = "ERROR: 0 | WARNING: 0 | INFO: 0 | Total: 0"
  /\ status_label = "Ready"
  /\ severity = "All"
  /\ search_text = ""
  /\ appendOps = 0
  /\ lastOp = NoOp
  /\ lastValidation = NoValidation

Init == InitDialog /\ undoOpen = 0

\* a script that calls the core may run inside a chunk its caller opened
InitCore == InitDialog /\ undoOpen \in 0..MaxOpenChunks

\* the Validate Scene button
ValidateScene ==
  \E v \in {run_validation(scene, host, Dialog, severity, search_text)} :
    /\ host' = v.host
    /\ last_results' = v.last_results
    /\ filtered_results' = v.filtered
    /\ results_list' = v.list
    /\ summary_label' = v.summary
    /\ status_label' = v.status
    /\ appendOps' = 0
    /\ lastOp' = [Op("validate", IF v.completed THEN "complete" ELSE "raised")
                    EXCEPT !.hostBefore = host, !.prev = lastValidation,
                           !.resultsBefore = last_results]
    /\ lastValidation' = IF v.completed
                         THEN [done |-> TRUE, scene |-> scene, results |-> v.last_results]
                         ELSE lastValidation
    /\ UNCHANGED <<scene, undoOpen, severity, search_text>>

\* the Clear Results button
ClearResults ==
  \E c \in {clear_results(Dialog)} :
    /\ last_results' = c.last_results
    /\ filtered_results' = c.filtered
    /\ results_list' = c.list
    /\ summary_label' = c.summary
    /\ status_label' = c.status
    /\ appendOps' = 0
    /\ lastOp' = [Op("clear", "") EXCEPT !.resultsBefore = last_results]
    /\ UNCHANGED <<scene, host, undoOpen, severity, search_text, lastValidation>>

Refilter(sev, text) ==
  \E f \in {apply_filters(last_results, sev, text)} :
    /\ severity' = sev
    /\ search_text' = text
    /\ filtered_results' = f.filtered
    /\ results_list' = f.list
    /\ summary_label' = f.summary
    /\ appendOps' = 0
    /\ lastOp' = [Op("filter", "") EXCEPT !.resultsBefore = last_results]
    /\ UNCHANGED <<scene, host, undoOpen, last_results, status_label, lastValidation>>

\* severity_filter.currentIndexChanged
ChangeSeverity == \E sev \in Severities \ {severity} : Refilter(sev, search_text)

\* search_box.textChanged
ChangeSearch == \E text \in SearchTexts \ {search_text} : Refilter(severity, text)

AutoFixHistory(name, outcome, f, undo) ==
  [Op(name, outcome)
     EXCEPT !.called = f.called, !.undoBefore = undo, !.opens = f.st.opens,
            !.closes = f.st.closes, !.unchunked = f.st.unchunked,
            !.badClose = f.st.badClose, !.actions = f.st.actions]

\* the buttons the confirmation box can return
Replies == {"Yes", "No", "Escape"}

\* the Auto Fix button and the answer to its confirmation box
AutoFix ==
  \E reply \in Replies :
    \E f \in {AssetValidatorUI_run_auto_fix(Dialog, scene, undoOpen, reply)} :
      /\ f.called => appendOps < MaxAppendOps
      /\ scene' = f.st.scene
      /\ undoOpen' = f.st.undo
      /\ results_list' = f.list
      /\ status_label' = f.status
      /\ appendOps' = IF f.called THEN appendOps + 1 ELSE appendOps
      /\ lastOp' = AutoFixHistory("autofix", IF reply = "Yes" THEN "Yes" ELSE "declined",
                                   f, undoOpen)
      /\ UNCHANGED <<host, last_results, filtered_results, summary_label, severity,
                     search_text, lastValidation>>

\* the paths typed into the save dialog ("" when it is dismissed)
SavePaths == {"", "C:/out/report"}

SaveFilters == {"JSON Report (*.json)", "Text Report (*.txt)"}

\* the Export Report button, the save dialog's answer and the disk's
ExportReport ==
  \E filepath \in SavePaths, selected_filter \in SaveFilters, io_ok \in BOOLEAN :
    \E e \in {export_report(Dialog, filepath, selected_filter, io_ok)} :
      /\ e.wrote => appendOps < MaxAppendOps
      /\ results_list' = e.list
      /\ status_label' = e.status
      /\ appendOps' = IF e.wrote THEN appendOps + 1 ELSE appendOps
      /\ lastOp' = [Op("export", e.outcome)
                      EXCEPT !.dialog = e.dialog, !.wrote = e.wrote, !.report = e.report,
                             !.resultsBefore = last_results]
      /\ UNCHANGED <<scene, host, undoOpen, last_results, filtered_results, summary_label,
                     severity, search_text, lastValidation>>

\* a double click on the first item of the list
DoubleClick ==
  /\ Len(results_list) > 0
  /\ \E d \in {on_result_double_clicked(scene, host, Dialog, results_list[1])} :
       /\ host' = d.host
       /\ status_label' = d.status
       /\ lastOp' = Op("dclick", "")
       /\ UNCHANGED <<scene, undoOpen, last_results, filtered_results, results_list,
                      summary_label, severity, search_text, appendOps, lastValidation>>

\* the user, in the viewport: selects the first transform, or toggles the
\* border-edge selection constraint on
UserSelect ==
  /\ host' = SelectReplace(scene, host, scene.xforms[1].path)
  /\ lastOp' = Op("user", "")
  /\ UNCHANGED <<scene, undoOpen, last_results, filtered_results, results_list,
                 summary_label, status_label, severity, search_text, appendOps,
                 lastValidation>>

UserSetConstraint ==
  /\ host' = [host EXCEPT !.con = UserConstraint]
  /\ lastOp' = Op("user", "")
  /\ UNCHANGED <<scene, undoOpen, last_results, filtered_results, results_list,
                 summary_label, status_label, severity, search_text, appendOps,
                 lastValidation>>

\* core.auto_fix.run_auto_fix called from a script with any choice of steps
CoreAutoFix ==
  \E freeze_transforms \in BOOLEAN, center_pivots \in BOOLEAN, delete_unused \in BOOLEAN :
    \E st \in {run_auto_fix(scene, undoOpen, freeze_transforms, center_pivots, delete_unused)} :
      /\ scene' = st.scene
      /\ undoOpen' = st.undo
      /\ lastOp' = AutoFixHistory("core", "", [called |-> TRUE, st |-> st], undoOpen)
      /\ UNCHANGED <<host, last_results, filtered_results, results_list, summary_label,
                     status_label, severity, search_text, appendOps, lastValidation>>

\* the results side of the dialog
Next ==
  \/ ValidateScene
  \/ ClearResults
  \/ ChangeSeverity
  \/ ChangeSearch
  \/ ExportReport

Spec == Init /\ [][Next]_vars

\* the scene side: the dialog, the user in the viewport and scripts
NextScene ==
  \/ ValidateScene
  \/ ClearResults
  \/ ChangeSeverity
  \/ AutoFix
  \/ DoubleClick
  \/ UserSelect
  \/ UserSetConstraint

SpecScene == Init /\ [][NextScene]_vars

\* scripts that call the core auto fix
NextCore == CoreAutoFix

SpecCore == InitCore /\ [][NextCore]_vars
(***************************************************************************)
(* Properties of the dialog's results (Spec).                              *)
(***************************************************************************)
ValidationCompleted == lastOp.op = "validate" /\ lastOp.outcome = "complete"

\* C1: after a Validate Scene run (one that returns, no check having raised)
\* last_results is the naming, transform, geometry and texture results
\* concatenated in that order and nothing else, whatever last_results held
\* before, and filtered_results and the displayed list are what apply_filters
\* builds from it under the current severity and search text.
C1_ValidationReplacesResults ==
  ValidationCompleted =>
    /\ last_results = run_naming_checks(scene) \o run_transform_checks(scene)
                        \o run_geometry_checks(scene, lastOp.hostBefore).results
                        \o run_texture_checks(scene).results
    /\ filtered_results = apply_filters(last_results, severity, search_text).filtered
    /\ results_list = apply_filters(last_results, severity, search_text).list

\* a second run over a scene where each of the four checks reports
C1_Witness ==
  /\ ValidationCompleted
  /\ lastOp.resultsBefore # <<>>
  /\ Len(filtered_results) < Len(last_results)
  /\ run_naming_checks(scene) # <<>>
  /\ run_transform_checks(scene) # <<>>
  /\ run_geometry_checks(scene, lastOp.hostBefore).results # <<>>
  /\ run_texture_checks(scene).results # <<>>

ZeroSummary == "ERROR: 0 | WARNING: 0 | INFO: 0 | Total: 0"

\* C5 as written: Export Report refuses only when Validate Scene has not been
\* run, and after a completed run it proceeds to the save dialog.
C5_RefusesOnlyBeforeValidation ==
  lastOp.op = "export" =>
    /\ lastOp.outcome = "refused" => ~lastValidation.done
    /\ lastValidation.done => lastOp.dialog

\* C5: Export Report refuses, opening no save dialog and writing no file,
\* exactly when last_results is empty: before the first completed Validate
\* Scene run and also after a completed run that reported nothing.  Otherwise
\* it opens the save dialog and the report it builds holds the results of
\* the last completed run.
C5_ExportRefusesIffNoResults ==
  lastOp.op = "export" =>
    /\ (lastOp.outcome = "refused") <=> (lastOp.resultsBefore = <<>>)
    /\ lastOp.outcome = "refused" => ~lastOp.dialog /\ ~lastOp.wrote
    /\ lastOp.outcome # "refused" =>
         /\ lastOp.dialog
         /\ lastValidation.done
         /\ lastOp.report.results = lastValidation.results
    /\ last_results = lastOp.resultsBefore

\* a refusal after a completed Validate Scene run
C5_Witness ==
  /\ lastOp.op = "export"
  /\ lastOp.outcome = "refused"
  /\ lastValidation.done

\* C6 as written: after Clear Results the list, last_results and
\* filtered_results are empty and the summary reads all zeros.  The class
\* defines clear_results twice; the definition in force only clears the list.
C6_ClearEmptiesResults ==
  lastOp.op = "clear" =>
    /\ results_list = <<>>
    /\ last_results = <<>>
    /\ filtered_results = <<>>
    /\ summary_label = ZeroSummary

\* the text apply_filters searches, and the match it makes, from the source's
\* own expressions: query in f"{lvl} {node} {msg}".lower()
Matches(r, sev, text) ==
  /\ sev = "All" \/ r.level = sev
  /\ Contains(StrLower(r.level \o " " \o r.node \o " " \o r.message), StrLower(Strip(text)))

FiltersApplied == lastOp.op = "filter" \/ ValidationCompleted

\* C9: after every apply_filters, filtered_results is the subsequence of
\* last_results, in order, of the results whose level is the selected
\* severity (or any, under "All") and whose lowercased "level node message"
\* contains the trimmed, lowercased search text; a filter change leaves
\* last_results as it was; the summary counts are those of last_results.
C9_FilteredIsMatchingSubsequence ==
  FiltersApplied =>
    /\ filtered_results = SelectSeq(last_results, LAMBDA r : Matches(r, severity, search_text))
    /\ lastOp.op = "filter" => last_results = lastOp.resultsBefore
    /\ summary_label = SummaryText(CountLevel(last_results, "ERROR"),
                                   CountLevel(last_results, "WARNING"),
                                   CountLevel(last_results, "INFO"), Len(last_results))

\* a search that matches only after lowercasing, under a severity that hides
\* some matches
C9_Witness ==
  /\ lastOp.op = "filter"
  /\ search_text = " Box "
  /\ severity = "WARNING"
  /\ filtered_results # <<>>
  /\ \E k \in 1..Len(last_results) :
       last_results[k].level = "ERROR" /\ Matches(last_results[k], "All", search_text)

(***************************************************************************)
(* Properties of the scene side (SpecScene) and of the core (SpecCore).    *)
(***************************************************************************)
\* C2: the checks keep no state between runs.  A Validate Scene run leaves
\* the scene graph as it was (the selection and the selection constraint are
\* the host's, not the graph's), and a run that completes over the scene
\* graph of the previous completed run gives that run's last_results again,
\* whatever was run, filtered, cleared or selected in between.
C2_ChecksAreStateless ==
  [][lastOp'.op = "validate" =>
       /\ scene' = scene
       /\ (lastOp'.outcome = "complete" /\ lastValidation.done /\ lastValidation.scene = scene)
            => last_results' = lastValidation.results]_vars

\* a run repeated over the same scene graph, this time started with a
\* selection made and the user's constraint on
C2_Witness ==
  /\ ValidationCompleted
  /\ lastOp.prev.done
  /\ lastOp.prev.scene = scene
  /\ lastOp.prev.results # <<>>
  /\ ConstraintOn(lastOp.hostBefore.con)
  /\ lastOp.hostBefore.sel # <<>>
  /\ \E k \in 1..Len(last_results) : StartsWith(last_results[k].message, "Non-manifold")

\* C4: when the confirmation box returns anything but Yes, the core
\* run_auto_fix is not called and no undo chunk is opened; the scene graph,
\* last_results, filtered_results and the displayed list stay as they were
\* and the status line reads "Auto Fix cancelled".
C4_DeclinedAutoFixChangesNothing ==
  [][(lastOp'.op = "autofix" /\ lastOp'.outcome # "Yes") =>
       /\ ~lastOp'.called
       /\ lastOp'.opens = 0
       /\ UNCHANGED <<scene, undoOpen, host, last_results, filtered_results, results_list,
                      summary_label>>
       /\ status_label' = "Auto Fix cancelled"]_vars

\* the box answered No or dismissed over a scene Auto Fix would have changed, with results on
\* display
C4_Witness ==
  /\ lastOp.op = "autofix"
  /\ lastOp.outcome = "declined"
  /\ status_label = "Auto Fix cancelled"
  /\ last_results # <<>>
  /\ run_auto_fix(scene, undoOpen, TRUE, TRUE, TRUE).scene # scene

\* C7: after run_geometry_checks, returned or raised, a selection constraint
\* that is enabled is the one that was there before the call, untouched; after
\* a normal return over a scene with a mesh shape the selection is empty; over
\* a scene without mesh shapes selection and constraint are as before.
C7_ConstraintsResetSelectionCleared ==
  lastOp.op = "validate" =>
    /\ ConstraintOn(host.con) => host.con = lastOp.hostBefore.con
    /\ (lastOp.outcome = "complete" /\ MeshShapes(scene) # <<>>) => host.sel = <<>>
    /\ MeshShapes(scene) = <<>> => host = lastOp.hostBefore

\* a run that raised after querying a mesh, started with the user's constraint on
C7_Witness ==
  /\ lastOp.op = "validate"
  /\ lastOp.outcome = "raised"
  /\ ConstraintOn(lastOp.hostBefore.con)
  /\ lastOp.hostBefore.sel # <<>>
  /\ host.sel # lastOp.hostBefore.sel

\* C8: every result of the four checks has level ERROR, WARNING or INFO and
\* every action run_auto_fix returns has level INFO or WARNING; so the three
\* counts the summary shows add up to its Total, and build_report's
\* summary.counts has exactly the three keys and its total is their sum.
C8_LevelsAndCountsAddUp ==
  /\ \A k \in 1..Len(last_results) : last_results[k].level \in Levels
  /\ \A k \in 1..Len(lastOp.actions) : lastOp.actions[k].level \in {"INFO", "WARNING"}
  /\ summary_label = SummaryText(CountLevel(last_results, "ERROR"),
                                 CountLevel(last_results, "WARNING"),
                                 CountLevel(last_results, "INFO"), Len(last_results))
  /\ CountLevel(last_results, "ERROR") + CountLevel(last_results, "WARNING")
       + CountLevel(last_results, "INFO") = Len(last_results)
  /\ \E rep \in {build_report(last_results)} :
       /\ DOMAIN rep.summary.counts = Levels
       /\ rep.summary.total = rep.summary.counts["ERROR"] + rep.summary.counts["WARNING"]
                                + rep.summary.counts["INFO"]
       /\ rep.summary.total = Len(rep.results)

\* results of all three levels on display and an Auto Fix that returned both
\* of its levels
C8_Witness ==
  /\ lastOp.op = "autofix"
  /\ \A lvl \in Levels : CountLevel(last_results, lvl) > 0
  /\ \A lvl \in {"INFO", "WARNING"} : CountLevel(lastOp.actions, lvl) > 0

\* C3: a call of run_auto_fix opens one undo chunk and closes it, once, on
\* every path: with any choice of steps, with nodes that fail to freeze or to
\* centre and with the MEL commands failing.  Every change it makes to the
\* scene is made while that chunk is open, and the number of open chunks
\* after the call is the number before it.
C3_OneUndoChunkAlwaysClosed ==
  lastOp.called =>
    /\ lastOp.opens = 1
    /\ lastOp.closes = 1
    /\ ~lastOp.badClose
    /\ ~lastOp.unchunked
    /\ undoOpen = lastOp.undoBefore

\* a call inside a caller's chunk where a node failed and both MEL commands failed
C3_Witness ==
  /\ lastOp.called
  /\ lastOp.undoBefore > 0
  /\ \E k \in 1..Len(lastOp.actions) :
       lastOp.actions[k].level = "WARNING" /\ lastOp.actions[k].node # "Scene"
  /\ \E k \in 1..Len(lastOp.actions) :
       lastOp.actions[k].level = "WARNING" /\ lastOp.actions[k].node = "Scene"
====
